---- MODULE Spec2Model ----
(***************************************************************************)
(* Model of the my-cli `push` command (index.ts) together with the parts   *)
(* of lib/config.ts, lib/git.ts, lib/prompt.ts and lib/ai.ts it calls.     *)
(* The handler is one async function: every action below is the resolution *)
(* of the await the handler is suspended at, followed by the synchronous   *)
(* code up to the next await (or process.exit).                            *)
(***************************************************************************)
EXTENDS Integers, Sequences, FiniteSets, TLC

\* ------------------------------------------------------------------ bounds
\* longest text (api key typed, -m message, command output) considered
MaxLen == 2

\* ------------------------------------------------------------------- texts
\* JavaScript strings are modelled as sequences of characters.
Chars == {" ", "a"}
Whitespace == {" "}
Texts == UNION {[1..n -> Chars] : n \in 0..MaxLen}
\* the JavaScript value `undefined` where a string is expected
Undefined == <<"undefined">>
\* `undefined` where an AiProvider / a flag is expected
UndefinedProvider == "undefined"

\* JavaScript truthiness of a string | undefined
Truthy(s) == s # Undefined /\ s # <<>>

RECURSIVE TrimStart(_)
TrimStart(s) ==
  IF s = <<>> THEN <<>>
  ELSE IF Head(s) \in Whitespace THEN TrimStart(Tail(s)) ELSE s

RECURSIVE TrimEnd(_)
TrimEnd(s) ==
  IF s = <<>> THEN <<>>
  ELSE IF s[Len(s)] \in Whitespace THEN TrimEnd(SubSeq(s, 1, Len(s) - 1)) ELSE s

\* String.prototype.trim
Trim(s) == TrimEnd(TrimStart(s))

\* ------------------------------------------------------------ lib/config.ts
AiProvider == {"gemini", "openai", "anthropic", "github"}

\* The config file on disk: missing, not parseable, or a JSON object whose
\* three fields may each be absent.
EmptyConfig ==
  [aiProvider |-> UndefinedProvider, apiKey |-> Undefined, setupComplete |-> "undefined"]

MissingFile == [kind |-> "missing", data |-> EmptyConfig]
InvalidFile == [kind |-> "invalid", data |-> EmptyConfig]
JsonFile(c) == [kind |-> "json", data |-> c]

\* a getConfig without the try/catch: the parse error of a corrupt file
\* reaches the caller
Thrown == [aiProvider |-> "thrown", apiKey |-> <<"thrown">>, setupComplete |-> "thrown"]
getConfig_NoCatch(file) ==
  CASE file.kind = "json" -> file.data
    [] file.kind = "missing" -> EmptyConfig
    [] OTHER -> Thrown

getConfig(file) == IF file.kind = "json" THEN file.data ELSE EmptyConfig

saveConfig(config) == JsonFile(config)

getApiKey(file) == getConfig(file).apiKey

getAiProvider(file) == getConfig(file).aiProvider

\* a setApiKey that leaves an already complete configuration as it is
setApiKey_FirstWins(file, p, k) ==
  IF getConfig(file).setupComplete = "true"
  THEN file
  ELSE saveConfig([getConfig(file) EXCEPT !.aiProvider = p, !.apiKey = k,
                                          !.setupComplete = "true"])

setApiKey(file, p, k) ==
  saveConfig([getConfig(file) EXCEPT !.aiProvider = p, !.apiKey = k,
                                     !.setupComplete = "true"])

isSetupComplete(file) ==
  LET config == getConfig(file) IN
    /\ config.setupComplete = "true"
    /\ Truthy(config.apiKey)
    /\ config.aiProvider # UndefinedProvider

\* --------------------------------------------------------------- lib/git.ts
\* hasChanges without the trim
hasChanges_NoTrim(stdout) == Len(stdout) > 0

\* hasChanges: `git status --porcelain` output, trimmed, is non-empty
hasChanges(stdout) == Len(Trim(stdout)) > 0

\* getCurrentBranch: stdout.trim() || 'main'
MainBranch == <<"m", "a", "i", "n">>
\* getCurrentBranch without the `|| 'main'`
getCurrentBranch_NoDefault(stdout) == Trim(stdout)

getCurrentBranch(stdout) == IF Trim(stdout) # <<>> THEN Trim(stdout) ELSE MainBranch

\* `git remote` prints one remote name per line; a name is modelled as the
\* sequence of its segments, so that `origin2` and `myorigin` contain the
\* segment "origin" the way the strings contain the substring.
RemoteNames == {<<"origin">>, <<"origin", "2">>, <<"my", "origin">>, <<"upstream">>}

\* hasRemote: stdout.includes('origin')
hasRemote(remotes) == \E r \in remotes : \E i \in 1..Len(r) : r[i] = "origin"

\* ------------------------------------------------------------ lib/prompt.ts
\* a validate callback that only rejects the empty input
validate_AcceptsBlank(value) == value # <<>>

\* the `validate` callback of the password prompt in inputApiKey
validate(value) == ~(value = <<>> \/ Len(Trim(value)) = 0)

\* inputApiKey returns apiKey.trim()
inputApiKey(raw) == Trim(raw)

\* ---------------------------------------------------------------- lib/ai.ts
\* What the single HTTP POST can come back with.
HttpErrorStatus == {401, 403, 429, 500}
\* the JSON shapes of a 2xx body: which provider's text path is populated
Shapes == {"candidates", "choices", "content", "none"}
Responses ==
  [kind : {"ok"}, status : {200}, shape : Shapes, text : Texts]
    \cup [kind : {"http"}, status : HttpErrorStatus, shape : {"none"}, text : {<<>>}]
    \cup [kind : {"network"}, status : {0}, shape : {"none"}, text : {<<>>}]

\* response.data?.<path> for the given provider
TextPath(p) ==
  CASE p = "gemini" -> "candidates"
    [] p = "openai" -> "choices"
    [] p = "anthropic" -> "content"
    [] p = "github" -> "choices"
    [] OTHER -> "unknown"

ExtractText(p, resp) == IF resp.shape = TextPath(p) THEN resp.text ELSE Undefined

Ok(text) == [ok |-> TRUE, value |-> text, error |-> "none"]
Err(kind) == [ok |-> FALSE, value |-> Undefined, error |-> kind]

\* a generateWithGemini whose catch looks at 401 only
generateWithGemini_Only401(resp) ==
  IF resp.kind = "ok"
  THEN IF ~Truthy(ExtractText("gemini", resp)) THEN Err("EmptyResponse")
       ELSE Ok(Trim(ExtractText("gemini", resp)))
  ELSE IF resp.kind = "http" /\ resp.status = 401 THEN Err("InvalidCredentials")
  ELSE Err("ProviderError")

generateWithGemini(resp) ==
  IF resp.kind = "ok"
  THEN IF ~Truthy(ExtractText("gemini", resp)) THEN Err("EmptyResponse")
       ELSE Ok(Trim(ExtractText("gemini", resp)))
  ELSE IF resp.kind = "http" /\ resp.status \in {401, 403} THEN Err("InvalidCredentials")
  ELSE IF resp.kind = "http" /\ resp.status = 429 THEN Err("RateLimited")
  ELSE Err("ProviderError")

\* the other three with the status handling of generateWithGemini
generateWithOther_LikeGemini(p, resp) ==
  IF resp.kind = "ok"
  THEN IF ~Truthy(ExtractText(p, resp)) THEN Err("EmptyResponse")
       ELSE Ok(Trim(ExtractText(p, resp)))
  ELSE IF resp.kind = "http" /\ resp.status \in {401, 403} THEN Err("InvalidCredentials")
  ELSE IF resp.kind = "http" /\ resp.status = 429 THEN Err("RateLimited")
  ELSE Err("ProviderError")

\* the other three with a catch that wraps every error, its own included
generateWithOther_WrapsAll(p, resp) ==
  IF resp.kind = "ok"
  THEN IF ~Truthy(ExtractText(p, resp)) THEN Err("ProviderError")
       ELSE Ok(Trim(ExtractText(p, resp)))
  ELSE IF resp.kind = "http" /\ resp.status = 401 THEN Err("InvalidCredentials")
  ELSE Err("ProviderError")

\* generateWithOpenAI, generateWithAnthropic and generateWithGitHub differ in
\* url, headers and text path only
generateWithOther(p, resp) ==
  IF resp.kind = "ok"
  THEN IF ~Truthy(ExtractText(p, resp)) THEN Err("EmptyResponse")
       ELSE Ok(Trim(ExtractText(p, resp)))
  ELSE IF resp.kind = "http" /\ resp.status = 401 THEN Err("InvalidCredentials")
  ELSE Err("ProviderError")

generateWithOpenAI(resp) == generateWithOther("openai", resp)
generateWithAnthropic(resp) == generateWithOther("anthropic", resp)
generateWithGitHub(resp) == generateWithOther("github", resp)

\* a switch that sends anthropic to the OpenAI function
generateCommitMessage_AnthropicAsOpenAI(p, resp) ==
  CASE p = "gemini" -> generateWithGemini(resp)
    [] p = "openai" -> generateWithOpenAI(resp)
    [] p = "anthropic" -> generateWithOpenAI(resp)
    [] p = "github" -> generateWithGitHub(resp)
    [] OTHER -> Err("UnknownProvider")

generateCommitMessage(p, resp) ==
  CASE p = "gemini" -> generateWithGemini(resp)
    [] p = "openai" -> generateWithOpenAI(resp)
    [] p = "anthropic" -> generateWithAnthropic(resp)
    [] p = "github" -> generateWithGitHub(resp)
    [] OTHER -> Err("UnknownProvider")

\* ------------------------------------------------------------ index.ts: push
VARIABLES
  pc,                   \* the await the handler is suspended at, or "exit"
  site,                 \* which of the three call sites of selectAiProvider / inputApiKey is active
  message,              \* options.message
  configFile,           \* ~/.my-cli/config.json
  needsApiReconfigure,  \* let needsApiReconfigure
  provider,             \* let provider
  apiKey,               \* let apiKey
  diff,                 \* const diff
  commitMessage,        \* let commitMessage
  exitCode,             \* argument of process.exit, -1 while running
  notice,               \* the last notice printed before the handler ended
  calls                 \* the external operations invoked so far, in order

vars == <<pc, site, message, configFile, needsApiReconfigure, provider, apiKey,
          diff, commitMessage, exitCode, notice, calls>>

\* texts of at most one character: empty, blank, or a letter
ShortTexts == {t \in Texts : Len(t) <= 1}

\* config files a run can start from: every field present or absent, the
\* key possibly empty
InitConfigs ==
  [aiProvider : AiProvider \cup {UndefinedProvider},
   apiKey : {Undefined, <<>>, <<"a">>},
   setupComplete : {"true", "false", "undefined"}]
InitFiles == {MissingFile, InvalidFile} \cup {JsonFile(c) : c \in InitConfigs}

\* staged diffs `git diff --cached` can print
Diffs == ShortTexts

Init ==
  /\ pc = "start"
  /\ site = "none"
  /\ message \in ShortTexts \cup {Undefined}
  /\ configFile \in InitFiles
  /\ needsApiReconfigure = FALSE
  /\ provider = UndefinedProvider
  /\ apiKey = Undefined
  /\ diff = Undefined
  /\ commitMessage = Undefined
  /\ exitCode = -1
  /\ notice = "none"
  /\ calls = <<>>

Call(op, ok, arg) == [op |-> op, ok |-> ok, arg |-> arg]
Log(op, ok, arg) == calls' = Append(calls, Call(op, ok, arg))

\* process.exit(code) after printing `note`
ProcessExit(code, note) == pc' = "exit" /\ exitCode' = code /\ notice' = note
\* the outer catch ending the process with code 0
Catch_ExitZero == ProcessExit(0, "Error")
\* the outer catch of the handler: print the error, process.exit(1)
Catch == ProcessExit(1, "Error")
Goto(p) == pc' = p /\ UNCHANGED <<exitCode, notice>>

locals == <<needsApiReconfigure, provider, apiKey, diff, commitMessage>>

\* if (!isSetupComplete() && !options.message) process.exit(1)
Start ==
  /\ pc = "start"
  /\ IF ~isSetupComplete(configFile) /\ ~Truthy(message)
     THEN ProcessExit(1, "SetupNotComplete")
     ELSE Goto("isGhInstalled")
  /\ UNCHANGED <<site, message, configFile, locals, calls>>

\* Step 1: isGhInstalled() never throws
IsGhInstalled ==
  /\ pc = "isGhInstalled"
  /\ \E installed \in BOOLEAN :
       /\ Log("isGhInstalled", installed, Undefined)
       /\ IF installed THEN Goto("isGhAuthenticated") ELSE Goto("confirmInstall")
  /\ UNCHANGED <<site, message, configFile, locals>>

\* confirm('Would you like to install GitHub CLI now?')
ConfirmInstall ==
  /\ pc = "confirmInstall"
  /\ \E answer \in {"yes", "no", "throw"} :
       /\ Log("confirm", answer # "throw", <<answer>>)
       /\ CASE answer = "yes" -> Goto("installGhCli")
            [] answer = "no" -> ProcessExit(1, "InstallDeclined")
            [] OTHER -> Catch
  /\ UNCHANGED <<site, message, configFile, locals>>

\* await installGhCli(); process.exit(0)
InstallGhCli ==
  /\ pc = "installGhCli"
  /\ \E ok \in BOOLEAN :
       /\ Log("installGhCli", ok, Undefined)
       /\ IF ok THEN ProcessExit(0, "Installed") ELSE Catch
  /\ UNCHANGED <<site, message, configFile, locals>>

\* Step3 without the `if (!options.message)` around it
Step3_IgnoresOverride(needs) ==
  IF ~isSetupComplete(configFile) \/ needs
  THEN Goto("selectAiProvider") /\ site' = "step3"
  ELSE Goto("isGitRepo") /\ site' = site

\* Step3 without the `|| needsApiReconfigure` of its condition
Step3_IgnoresFreshLogin(needs) ==
  IF ~Truthy(message) /\ ~isSetupComplete(configFile)
  THEN Goto("selectAiProvider") /\ site' = "step3"
  ELSE Goto("isGitRepo") /\ site' = site

\* Step 3, evaluated synchronously once step 2 is through
Step3(needs) ==
  IF ~Truthy(message) /\ (~isSetupComplete(configFile) \/ needs)
  THEN Goto("selectAiProvider") /\ site' = "step3"
  ELSE Goto("isGitRepo") /\ site' = site

\* Step 2: isGhAuthenticated() never throws
IsGhAuthenticated ==
  /\ pc = "isGhAuthenticated"
  /\ \E authenticated \in BOOLEAN :
       /\ Log("isGhAuthenticated", authenticated, Undefined)
       /\ IF authenticated
          THEN Step3(FALSE)
          ELSE Goto("loginGh") /\ site' = site
  /\ UNCHANGED <<message, configFile, locals>>

\* await loginGh(); needsApiReconfigure = true
LoginGh ==
  /\ pc = "loginGh"
  /\ \E ok \in BOOLEAN :
       /\ Log("loginGh", ok, Undefined)
       /\ IF ok
          THEN needsApiReconfigure' = TRUE /\ Step3(TRUE)
          ELSE Catch /\ UNCHANGED <<needsApiReconfigure, site>>
  /\ UNCHANGED <<message, configFile, provider, apiKey, diff, commitMessage>>

\* provider = await selectAiProvider()
SelectAiProvider ==
  /\ pc = "selectAiProvider"
  /\ \/ \E p \in AiProvider :
          /\ provider' = p
          /\ Log("selectAiProvider", TRUE, Undefined)
          /\ Goto("inputApiKey")
     \/ /\ Log("selectAiProvider", FALSE, Undefined)
        /\ Catch
        /\ UNCHANGED provider
  /\ UNCHANGED <<site, message, configFile, needsApiReconfigure, apiKey, diff, commitMessage>>

\* where the handler continues after `setApiKey(provider, apiKey)` at a site
AfterConfigure ==
  CASE site = "step3" -> "isGitRepo"
    [] site = "step5" -> "getStagedDiff"
    [] site = "retry" -> "retryGenerate"

\* InputApiKey that keeps the new provider and key in memory only
InputApiKey_NotPersisted ==
  /\ pc = "inputApiKey"
  /\ \/ \E raw \in Texts, written \in BOOLEAN :
          /\ validate(raw)
          /\ apiKey' = inputApiKey(raw)
          /\ calls' = calls \o <<Call("inputApiKey", TRUE, Undefined),
                                 Call("setApiKey", written, inputApiKey(raw))>>
          /\ UNCHANGED configFile
          /\ IF written THEN Goto(AfterConfigure) ELSE Catch
     \/ /\ Log("inputApiKey", FALSE, Undefined)
        /\ Catch
        /\ UNCHANGED <<apiKey, configFile>>
  /\ UNCHANGED <<site, message, needsApiReconfigure, provider, diff, commitMessage>>

\* apiKey = await inputApiKey(provider); setApiKey(provider, apiKey)
\* (saveConfig throws when the file cannot be written)
InputApiKey ==
  /\ pc = "inputApiKey"
  /\ \/ \E raw \in Texts, written \in BOOLEAN :
          /\ validate(raw)
          /\ apiKey' = inputApiKey(raw)
          /\ calls' = calls \o <<Call("inputApiKey", TRUE, Undefined),
                                 Call("setApiKey", written, inputApiKey(raw))>>
          /\ IF written
             THEN /\ configFile' = setApiKey(configFile, provider, inputApiKey(raw))
                  /\ Goto(AfterConfigure)
             ELSE /\ UNCHANGED configFile
                  /\ Catch
     \/ /\ Log("inputApiKey", FALSE, Undefined)
        /\ Catch
        /\ UNCHANGED <<apiKey, configFile>>
  /\ UNCHANGED <<site, message, needsApiReconfigure, provider, diff, commitMessage>>

\* Step 4: isGitRepo() never throws
IsGitRepo ==
  /\ pc = "isGitRepo"
  /\ \E repo \in BOOLEAN :
       /\ Log("isGitRepo", repo, Undefined)
       /\ IF repo THEN Goto("hasRemote") ELSE Goto("initGitRepo")
  /\ UNCHANGED <<site, message, configFile, locals>>

\* InitGitRepo with a failed `git init` swallowed instead of thrown
InitGitRepo_FailureSwallowed ==
  /\ pc = "initGitRepo"
  /\ \E ok \in BOOLEAN :
       /\ Log("initGitRepo", ok, Undefined)
       /\ Goto("hasRemote")
  /\ UNCHANGED <<site, message, configFile, locals>>

\* await initGitRepo()
InitGitRepo ==
  /\ pc = "initGitRepo"
  /\ \E ok \in BOOLEAN :
       /\ Log("initGitRepo", ok, Undefined)
       /\ IF ok THEN Goto("hasRemote") ELSE Catch
  /\ UNCHANGED <<site, message, configFile, locals>>

\* Step 5: hasRemote() is false when `git remote` fails.  The call is
\* recorded with the remote named exactly `origin`, if the listing has one.
HasRemote ==
  /\ pc = "hasRemote"
  /\ \E ran \in BOOLEAN, remotes \in SUBSET RemoteNames :
       LET found == ran /\ hasRemote(remotes) IN
         /\ Log("hasRemote", found,
                IF ran /\ <<"origin">> \in remotes THEN <<"origin">> ELSE <<>>)
         /\ IF found THEN Goto("hasChanges") ELSE Goto("createGitHubRepo")
  /\ UNCHANGED <<site, message, configFile, locals>>

\* await createGitHubRepo()
CreateGitHubRepo ==
  /\ pc = "createGitHubRepo"
  /\ \E ok \in BOOLEAN :
       /\ Log("createGitHubRepo", ok, Undefined)
       /\ IF ok THEN Goto("hasChanges") ELSE Catch
  /\ UNCHANGED <<site, message, configFile, locals>>

\* Step 6: if (!(await hasChanges())) process.exit(0); hasChanges() throws
\* when `git status --porcelain` fails.  The call is recorded with the
\* trimmed output.
HasChanges ==
  /\ pc = "hasChanges"
  /\ \/ \E stdout \in Texts :
          /\ Log("hasChanges", hasChanges(stdout), Trim(stdout))
          /\ IF hasChanges(stdout) THEN Goto("stageAll") ELSE ProcessExit(0, "NoChanges")
     \/ /\ Log("hasChanges", FALSE, Undefined)
        /\ Catch
  /\ UNCHANGED <<site, message, configFile, locals>>

\* Step 7: await stageAll(), then the synchronous start of step 8
StageAll ==
  /\ pc = "stageAll"
  /\ \/ /\ Log("stageAll", TRUE, Undefined)
        /\ IF Truthy(message)
           THEN /\ commitMessage' = message
                /\ Goto("commit")
                /\ UNCHANGED <<site, provider, apiKey>>
           ELSE /\ provider' = getAiProvider(configFile)
                /\ apiKey' = getApiKey(configFile)
                /\ UNCHANGED commitMessage
                /\ IF getAiProvider(configFile) = UndefinedProvider
                        \/ ~Truthy(getApiKey(configFile))
                   THEN Goto("selectAiProvider") /\ site' = "step5"
                   ELSE Goto("getStagedDiff") /\ site' = site
     \/ /\ Log("stageAll", FALSE, Undefined)
        /\ Catch
        /\ UNCHANGED <<site, provider, apiKey, commitMessage>>
  /\ UNCHANGED <<message, configFile, needsApiReconfigure, diff>>

\* GetStagedDiff without the `if (!diff)` exit
GetStagedDiff_NoEmptyCheck ==
  /\ pc = "getStagedDiff"
  /\ \/ \E d \in Diffs :
          /\ diff' = d
          /\ Log("getStagedDiff", TRUE, Undefined)
          /\ Goto("generateCommitMessage")
     \/ /\ Log("getStagedDiff", FALSE, Undefined)
        /\ Catch
        /\ UNCHANGED diff
  /\ UNCHANGED <<site, message, configFile, needsApiReconfigure, provider, apiKey,
                 commitMessage>>

\* const diff = await getStagedDiff(); if (!diff) process.exit(0)
GetStagedDiff ==
  /\ pc = "getStagedDiff"
  /\ \/ \E d \in Diffs :
          /\ diff' = d
          /\ Log("getStagedDiff", TRUE, Undefined)
          /\ IF ~Truthy(d) THEN ProcessExit(0, "NoStagedChanges")
             ELSE Goto("generateCommitMessage")
     \/ /\ Log("getStagedDiff", FALSE, Undefined)
        /\ Catch
        /\ UNCHANGED diff
  /\ UNCHANGED <<site, message, configFile, needsApiReconfigure, provider, apiKey,
                 commitMessage>>

\* try { commitMessage = await generateCommitMessage(diff, provider, apiKey) }
\* catch (aiError) { ... confirm('Reconfigure AI provider?') }
GenerateCommitMessage ==
  /\ pc = "generateCommitMessage"
  /\ \E resp \in Responses :
       LET result == generateCommitMessage(provider, resp) IN
         /\ Log("generateCommitMessage", result.ok, diff)
         /\ IF result.ok
            THEN commitMessage' = result.value /\ Goto("commit")
            ELSE UNCHANGED commitMessage /\ Goto("confirmReconfigure")
  /\ UNCHANGED <<site, message, configFile, needsApiReconfigure, provider, apiKey, diff>>

\* ConfirmReconfigure without the process.exit(1) of the else branch
ConfirmReconfigure_NoExit ==
  /\ pc = "confirmReconfigure"
  /\ \E answer \in {"yes", "no", "throw"} :
       /\ Log("confirm", answer # "throw", <<answer>>)
       /\ CASE answer = "yes" -> Goto("selectAiProvider") /\ site' = "retry"
            [] answer = "no" -> Goto("commit") /\ site' = site
            [] OTHER -> Catch /\ site' = site
  /\ UNCHANGED <<message, configFile, locals>>

\* const shouldReconfigure = await confirm('Reconfigure AI provider?')
ConfirmReconfigure ==
  /\ pc = "confirmReconfigure"
  /\ \E answer \in {"yes", "no", "throw"} :
       /\ Log("confirm", answer # "throw", <<answer>>)
       /\ CASE answer = "yes" -> Goto("selectAiProvider") /\ site' = "retry"
            [] answer = "no" -> ProcessExit(1, "ReconfigureDeclined") /\ site' = site
            [] OTHER -> Catch /\ site' = site
  /\ UNCHANGED <<message, configFile, locals>>

\* RetryGenerate with a failed retry offering the reconfiguration again
RetryGenerate_Loop ==
  /\ pc = "retryGenerate"
  /\ \E resp \in Responses :
       LET result == generateCommitMessage(provider, resp) IN
         /\ Log("generateCommitMessage", result.ok, diff)
         /\ IF result.ok
            THEN commitMessage' = result.value /\ Goto("commit")
            ELSE UNCHANGED commitMessage /\ Goto("confirmReconfigure")
  /\ UNCHANGED <<site, message, configFile, needsApiReconfigure, provider, apiKey, diff>>

\* the retry inside the catch block: a failure reaches the outer catch
RetryGenerate ==
  /\ pc = "retryGenerate"
  /\ \E resp \in Responses :
       LET result == generateCommitMessage(provider, resp) IN
         /\ Log("generateCommitMessage", result.ok, diff)
         /\ IF result.ok
            THEN commitMessage' = result.value /\ Goto("commit")
            ELSE UNCHANGED commitMessage /\ Catch
  /\ UNCHANGED <<site, message, configFile, needsApiReconfigure, provider, apiKey, diff>>

\* Commit with a failed `git commit` swallowed instead of thrown
Commit_FailureSwallowed ==
  /\ pc = "commit"
  /\ \E ok \in BOOLEAN :
       /\ Log("commit", ok, commitMessage)
       /\ Goto("getCurrentBranch")
  /\ UNCHANGED <<site, message, configFile, locals>>

\* Step 9: await commit(commitMessage)
Commit ==
  /\ pc = "commit"
  /\ \E ok \in BOOLEAN :
       /\ Log("commit", ok, commitMessage)
       /\ IF ok THEN Goto("getCurrentBranch") ELSE Catch
  /\ UNCHANGED <<site, message, configFile, locals>>

\* Step 10, push(): const branch = await getCurrentBranch()
GetCurrentBranch ==
  /\ pc = "getCurrentBranch"
  /\ \/ \E stdout \in Texts :
          /\ Log("getCurrentBranch", TRUE, stdout)
          /\ Goto("push")
     \/ /\ Log("getCurrentBranch", FALSE, Undefined)
        /\ Catch
  /\ UNCHANGED <<site, message, configFile, locals>>

\* Push that rolls the index back with `git reset` when the push failed
Push_ResetOnFailure ==
  /\ pc = "push"
  /\ \E ok \in BOOLEAN :
       /\ IF ok
          THEN Log("push", ok, getCurrentBranch(calls[Len(calls)].arg)) /\ ProcessExit(0, "PushComplete")
          ELSE /\ calls' = calls \o <<Call("push", ok, getCurrentBranch(calls[Len(calls)].arg)),
                                       Call("reset", TRUE, Undefined)>>
               /\ Catch
  /\ UNCHANGED <<site, message, configFile, locals>>

\* push(): await execa('git', ['push', '-u', 'origin', branch])
Push ==
  /\ pc = "push"
  /\ \E ok \in BOOLEAN :
       /\ Log("push", ok, getCurrentBranch(calls[Len(calls)].arg))
       /\ IF ok THEN ProcessExit(0, "PushComplete") ELSE Catch
  /\ UNCHANGED <<site, message, configFile, locals>>

Next ==
  \/ Start
  \/ IsGhInstalled
  \/ ConfirmInstall
  \/ InstallGhCli
  \/ IsGhAuthenticated
  \/ LoginGh
  \/ SelectAiProvider
  \/ InputApiKey
  \/ IsGitRepo
  \/ InitGitRepo
  \/ HasRemote
  \/ CreateGitHubRepo
  \/ HasChanges
  \/ StageAll
  \/ GetStagedDiff
  \/ GenerateCommitMessage
  \/ ConfirmReconfigure
  \/ RetryGenerate
  \/ Commit
  \/ GetCurrentBranch
  \/ Push

Spec == Init /\ [][Next]_vars

TypeOK ==
  /\ exitCode \in {-1, 0, 1}
  /\ (pc = "exit") = (exitCode # -1)

\* ------------------------------------------------------------ push: claims
\* positions in the call log at which `op` was invoked
Ops(op) == {i \in 1..Len(calls) : calls[i].op = op}
Count(op) == Cardinality(Ops(op))
\* every invocation of `a` precedes every invocation of `b`
AllBefore(a, b) == \A i \in Ops(a), j \in Ops(b) : i < j
\* the call log ends with call number i
IsLast(i) == i = Len(calls)
Exited(code) == pc = "exit" /\ exitCode = code

\* commit only after a successful stage, push only after a successful commit
CommitAfterStage ==
  /\ \A i \in Ops("commit") : \E j \in Ops("stageAll") : j < i /\ calls[j].ok
  /\ \A i \in Ops("push") : \E j \in Ops("commit") : j < i /\ calls[j].ok

StageMessageCommitPush ==
  /\ Count("stageAll") = 1 /\ Count("commit") = 1 /\ Count("push") = 1
  /\ AllBefore("stageAll", "generateCommitMessage")
  /\ AllBefore("stageAll", "commit")
  /\ AllBefore("generateCommitMessage", "commit")
  /\ AllBefore("commit", "push")
  /\ IF Truthy(message)
     THEN Count("generateCommitMessage") = 0
     ELSE Count("generateCommitMessage") >= 1

\* C1 as stated: in a run that ends with 'Push complete', stage, the
\* message step (override or AI call), commit and push happen in this order
\* and each at most once; commit never precedes staging and push never
\* precedes a successful commit.
C1_EachAtMostOnce ==
  /\ CommitAfterStage
  /\ notice = "PushComplete" =>
       StageMessageCommitPush /\ Count("generateCommitMessage") <= 1

\* C1 amended: as C1, except that the AI call happens at most twice, the
\* second one being the retry after a failed first call.
C1_PushOrder ==
  /\ CommitAfterStage
  /\ notice = "PushComplete" =>
       /\ StageMessageCommitPush
       /\ Count("generateCommitMessage") <= 2
       /\ \A i, j \in Ops("generateCommitMessage") : i < j => ~calls[i].ok

C1_Witness == notice = "PushComplete" /\ exitCode = 0 /\ Count("generateCommitMessage") = 2

\* C2: when the first AI call fails and the user declines the
\* reconfiguration, the run ends there with exit code 1, and neither commit
\* nor push is invoked.
C2_DeclineAborts ==
  \A i \in Ops("generateCommitMessage") :
    (~calls[i].ok /\ i < Len(calls) /\ calls[i + 1] = Call("confirm", TRUE, <<"no">>)) =>
      /\ IsLast(i + 1)
      /\ Exited(1)
      /\ Count("commit") = 0
      /\ Count("push") = 0

C2_Witness ==
  /\ Exited(1)
  /\ Len(calls) >= 2
  /\ calls[Len(calls)] = Call("confirm", TRUE, <<"no">>)
  /\ calls[Len(calls) - 1].op = "generateCommitMessage"

\* C3: generateCommitMessage is invoked at most twice per run, the second
\* time only after a failed first call and an accepted reconfiguration; a
\* failed retry ends the run with exit code 1, with no commit, no push and no
\* further offer to reconfigure.
C3_OneRetry ==
  /\ Count("generateCommitMessage") <= 2
  /\ Cardinality({k \in Ops("confirm") :
                    \E i \in Ops("generateCommitMessage") : i < k}) <= 1
  /\ \A i, j \in Ops("generateCommitMessage") :
       i < j =>
         /\ ~calls[i].ok
         /\ calls[i + 1] = Call("confirm", TRUE, <<"yes">>)
         /\ \E k \in Ops("setApiKey") : i < k /\ k < j /\ calls[k].ok
         /\ ~calls[j].ok =>
              /\ IsLast(j)
              /\ Exited(1)
              /\ Count("commit") = 0
              /\ Count("push") = 0

C3_Witness ==
  /\ Exited(1)
  /\ Count("generateCommitMessage") = 2
  /\ ~calls[Len(calls)].ok
  /\ calls[Len(calls)].op = "generateCommitMessage"

\* C4 as stated: without a message override and with the AI provider/key
\* not configured, the run does not abort on the missing configuration: if
\* it ends with the configuration still incomplete, it either ended inside
\* steps 1-2 or had at least started the forced provider selection.
C4_MissingConfigRemediated ==
  (~Truthy(message) /\ ~isSetupComplete(configFile) /\ pc = "exit") =>
    \/ Count("selectAiProvider") >= 1
    \/ /\ calls # <<>>
       /\ calls[Len(calls)].op \in {"confirm", "installGhCli", "loginGh"}

\* what a run with a message override never does
NoAiConfiguration ==
  /\ Count("generateCommitMessage") = 0
  /\ Count("selectAiProvider") = 0
  /\ Count("inputApiKey") = 0
  /\ Count("setApiKey") = 0
  /\ \A i \in Ops("commit") : calls[i].arg = message

\* C5: with a (non-empty) -m override no step invokes generateCommitMessage,
\* prompts for provider or key, or writes the config file, whatever the setup
\* state and whether or not a fresh login happened; commit receives exactly
\* the override.
C5_OverrideWins ==
  [][Truthy(message) => (configFile' = configFile /\ NoAiConfiguration')]_vars

C5_Witness ==
  /\ Truthy(message)
  /\ ~isSetupComplete(configFile)
  /\ needsApiReconfigure
  /\ \E i \in Ops("commit") : calls[i].arg = message

\* C6: when the trimmed `git status --porcelain` output is empty the run
\* ends right there with exit code 0 and stage, AI call, commit and push are
\* never invoked; when it is non-empty the next step is staging.
C6_NoChangesNoOp ==
  \A i \in Ops("hasChanges") :
    /\ calls[i].arg = <<>> =>
         /\ IsLast(i)
         /\ Exited(0)
         /\ Count("stageAll") = 0
         /\ Count("generateCommitMessage") = 0
         /\ Count("commit") = 0
         /\ Count("push") = 0
    /\ Truthy(calls[i].arg) =>
         IF IsLast(i) THEN pc = "stageAll" ELSE calls[i + 1].op = "stageAll"

C6_Witness ==
  /\ Exited(0)
  /\ calls # <<>>
  /\ calls[Len(calls)].op = "hasChanges"
  /\ calls[Len(calls)].arg = <<>>

\* C7: without override, once an interactive login was triggered and went
\* through, provider and key are re-selected and stored with setApiKey
\* before the git-repository check and before any stage, commit or push.
C7_FreshLoginReconfigures ==
  ~Truthy(message) =>
    /\ \A l \in Ops("loginGh") : \A j \in 1..Len(calls) :
         (calls[l].ok /\ l < j /\ calls[j].op \in {"isGitRepo", "stageAll", "commit", "push"}) =>
           \E k \in Ops("setApiKey") : l < k /\ k < j /\ calls[k].ok
    /\ (needsApiReconfigure /\ pc = "isGitRepo") =>
         /\ \E k \in Ops("setApiKey") : calls[k].ok
         /\ isSetupComplete(configFile)
         /\ getAiProvider(configFile) = provider
         /\ getApiKey(configFile) = apiKey

C7_Witness ==
  /\ ~Truthy(message)
  /\ needsApiReconfigure
  /\ Count("isGitRepo") = 1
  /\ Count("setApiKey") = 1

\* the precondition check a remediation answers
CheckOf(op) ==
  CASE op = "installGhCli" -> "isGhInstalled"
    [] op = "loginGh" -> "isGhAuthenticated"
    [] op = "initGitRepo" -> "isGitRepo"
    [] op = "createGitHubRepo" -> "hasRemote"

\* the calls with which the flow goes on after a remediation
NextStepOf(op) ==
  CASE op = "installGhCli" -> {}
    [] op = "loginGh" -> {"selectAiProvider", "isGitRepo"}
    [] op = "initGitRepo" -> {"hasRemote"}
    [] op = "createGitHubRepo" -> {"hasChanges"}

Remediations == {"installGhCli", "loginGh", "initGitRepo", "createGitHubRepo"}

\* C8 as stated: after every remediation (install gh, login, init, create
\* remote) the flow re-evaluates the triggering check before it goes on.
C8_Rechecked ==
  \A i \in 1..Len(calls) :
    (calls[i].op \in Remediations /\ calls[i].ok /\ i < Len(calls)) =>
      calls[i + 1].op = CheckOf(calls[i].op)

\* C8 amended: a remediation is run once, right after its check failed, and
\* the check is not evaluated again: each precondition check happens at most
\* once per run; after a remediation that went through the flow goes on with
\* the next step (after install: exit code 0), after one that failed the run
\* ends with exit code 1.
C8_RemediateThenProceed ==
  /\ \A op \in Remediations : Count(op) <= 1 /\ Count(CheckOf(op)) <= 1
  /\ \A i \in 1..Len(calls) :
       calls[i].op \in Remediations =>
         /\ \E j \in Ops(CheckOf(calls[i].op)) : j < i /\ ~calls[j].ok
         /\ ~calls[i].ok => IsLast(i) /\ Exited(1)
         /\ (calls[i].ok /\ calls[i].op = "installGhCli") => IsLast(i) /\ Exited(0)
         /\ (calls[i].ok /\ i < Len(calls)) => calls[i + 1].op \in NextStepOf(calls[i].op)

C8_Witness ==
  /\ \A op \in Remediations \ {"installGhCli"} : \E i \in Ops(op) : calls[i].ok
  /\ Count("hasChanges") = 1

\* the steps of the sequence whose failure is thrown
ThrowingSteps == {"loginGh", "initGitRepo", "createGitHubRepo", "stageAll", "commit", "push"}
Declined(i) == calls[i] = Call("confirm", TRUE, <<"no">>)
LastCall == calls[Len(calls)]

CompletedPush == calls # <<>> /\ LastCall.op = "push" /\ LastCall.ok /\ notice = "PushComplete"
NoOp ==
  /\ notice \in {"NoChanges", "NoStagedChanges"}
  /\ Count("commit") = 0
  /\ Count("push") = 0
InstalledGh == calls # <<>> /\ LastCall = Call("installGhCli", TRUE, Undefined)

DeclineOrFailureExitsOne ==
  \A i \in 1..Len(calls) :
    (Declined(i) \/ (calls[i].op \in ThrowingSteps /\ ~calls[i].ok)) =>
      IsLast(i) /\ Exited(1)

\* C9 as stated: a finished run has exit code 0 or 1; 0 only after a
\* completed push or an intentional no-op; a declined remediation or a failed
\* step ends the run with 1 and nothing is invoked after it.
C9_ZeroOnlyPushOrNoOp ==
  /\ pc = "exit" => exitCode \in {0, 1}
  /\ Exited(0) => CompletedPush \/ NoOp
  /\ DeclineOrFailureExitsOne

\* C9 amended: as C9, with a third way to exit 0: the user accepted the
\* GitHub CLI installation and it went through.
C9_ExitCodes ==
  /\ pc = "exit" => exitCode \in {0, 1}
  /\ Exited(0) => CompletedPush \/ NoOp \/ InstalledGh
  /\ DeclineOrFailureExitsOne

C9_Witness ==
  /\ Exited(1)
  /\ calls # <<>>
  /\ LastCall = Call("commit", FALSE, commitMessage)
  /\ Count("stageAll") = 1

\* C10: generateCommitMessage never receives an empty diff: an empty staged
\* diff ends the run with exit code 0 before any AI call, commit or push, and
\* every AI call of a run, the retry included, receives the same non-empty
\* diff that getStagedDiff returned.
C10_NoEmptyDiff ==
  /\ diff = <<>> =>
       /\ Exited(0)
       /\ Count("generateCommitMessage") = 0
       /\ Count("commit") = 0
       /\ Count("push") = 0
  /\ \A i \in Ops("generateCommitMessage") : calls[i].arg = diff /\ Truthy(diff)

C10_Witness ==
  /\ diff = <<>>
  /\ Exited(0)
  /\ Count("stageAll") = 1
  /\ LastCall.op = "getStagedDiff"


\* the subprocess behind a call of lib/git.ts, as its argument vector; the
\* prompts, the config store and the AI client run no subprocess
Subprocess(op) ==
  CASE op = "isGhInstalled" -> <<"gh", "--version">>
    [] op = "isGhAuthenticated" -> <<"gh", "auth", "status">>
    [] op = "loginGh" -> <<"gh", "auth", "login">>
    [] op = "isGitRepo" -> <<"git", "rev-parse", "--is-inside-work-tree">>
    [] op = "initGitRepo" -> <<"git", "init">>
    [] op = "hasRemote" -> <<"git", "remote">>
    [] op = "createGitHubRepo" -> <<"gh", "repo", "create">>
    [] op = "stageAll" -> <<"git", "add", ".">>
    [] op = "getStagedDiff" -> <<"git", "diff", "--cached">>
    [] op = "commit" -> <<"git", "commit", "-m">>
    [] op = "getCurrentBranch" -> <<"git", "branch", "--show-current">>
    [] op = "push" -> <<"git", "push", "-u", "origin">>
    [] op \in {"confirm", "selectAiProvider", "inputApiKey", "setApiKey",
               "generateCommitMessage"} -> <<>>
    [] OTHER -> <<"git", op>>

\* the subprocesses that leave the staged index as it is, or commit it
KeepsIndex ==
  {<<>>, <<"git", "diff", "--cached">>, <<"git", "commit", "-m">>,
   <<"git", "branch", "--show-current">>, <<"git", "push", "-u", "origin">>}

\* C11: once staging went through, nothing that unstages or reverts is run,
\* whichever way the run ends (AI failure with the reconfiguration declined,
\* failed retry, empty diff, failed commit or push): the only subprocesses
\* after `git add .` are git diff --cached, git commit, git branch and
\* git push.
C11_NoPartialUndo ==
  \A s \in Ops("stageAll") :
    calls[s].ok => \A i \in (s + 1)..Len(calls) : Subprocess(calls[i].op) \in KeepsIndex

C11_Witness ==
  /\ Exited(1)
  /\ \E s \in Ops("stageAll") : calls[s].ok
  /\ LastCall.op = "push"
  /\ ~LastCall.ok


\* ------------------------------------------- the other commands of index.ts
\* lib/config.ts, clearConfig: unlink the file if it exists and say whether
\* there was one.  The file is the one the program itself keeps under the
\* user's home directory, so unlinking an existing file goes through.
clearConfig_AlwaysTrue(file) == [file |-> MissingFile, result |-> TRUE]

clearConfig(file) ==
  IF file.kind # "missing"
  THEN [file |-> MissingFile, result |-> TRUE]
  ELSE [file |-> file, result |-> FALSE]

\* A session is a sequence of command invocations, one process each; between
\* two of them only the config file (and what is left on the terminal)
\* remains.
InitCommands ==
  /\ pc = "idle"
  /\ site = "none"
  /\ message = Undefined
  /\ configFile \in {MissingFile, InvalidFile}
  /\ needsApiReconfigure = FALSE
  /\ provider = UndefinedProvider
  /\ apiKey = Undefined
  /\ diff = Undefined
  /\ commitMessage = Undefined
  /\ exitCode = -1
  /\ notice = "none"
  /\ calls = <<>>

\* the process has ended and the shell is ready for the next command
ShellPrompt ==
  /\ pc = "exit"
  /\ pc' = "idle"
  /\ site' = "none"
  /\ message' = Undefined
  /\ needsApiReconfigure' = FALSE
  /\ provider' = UndefinedProvider
  /\ apiKey' = Undefined
  /\ diff' = Undefined
  /\ commitMessage' = Undefined
  /\ exitCode' = -1
  /\ calls' = <<>>
  /\ UNCHANGED <<configFile, notice>>

\* my-cli push [-m <message>]
PushCommand ==
  /\ pc = "idle"
  /\ pc' = "start"
  /\ message' \in ShortTexts \cup {Undefined}
  /\ notice' = "none"
  /\ UNCHANGED <<site, configFile, locals, exitCode, calls>>

\* selectAiProvider(), inputApiKey(provider), setApiKey(provider, apiKey) and
\* the return of the handler, as in `setup` (steps 3-4) and `config`; `before`
\* are the calls of the handler up to there, `note` its closing line
Configure(before, note) ==
  \/ \E p \in AiProvider, raw \in Texts, written \in BOOLEAN :
       /\ validate(raw)
       /\ provider' = p
       /\ apiKey' = inputApiKey(raw)
       /\ calls' = before \o <<Call("selectAiProvider", TRUE, Undefined),
                               Call("inputApiKey", TRUE, Undefined),
                               Call("setApiKey", written, inputApiKey(raw))>>
       /\ IF written
          THEN configFile' = setApiKey(configFile, p, inputApiKey(raw)) /\ ProcessExit(0, note)
          ELSE UNCHANGED configFile /\ Catch
  \/ \E p \in AiProvider :
       /\ provider' = p
       /\ calls' = before \o <<Call("selectAiProvider", TRUE, Undefined),
                               Call("inputApiKey", FALSE, Undefined)>>
       /\ Catch
       /\ UNCHANGED <<apiKey, configFile>>
  \/ /\ calls' = before \o <<Call("selectAiProvider", FALSE, Undefined)>>
     /\ Catch
     /\ UNCHANGED <<provider, apiKey, configFile>>

\* my-cli setup
SetupCommand ==
  /\ pc = "idle"
  /\ \/ \E answer \in {"yes", "no", "throw"}, ok \in BOOLEAN :
          \* gh is missing: offer the installation, then exit either way
          /\ calls' = <<Call("isGhInstalled", FALSE, Undefined),
                        Call("confirm", answer # "throw", <<answer>>)>>
                        \o (IF answer = "yes" THEN <<Call("installGhCli", ok, Undefined)>>
                            ELSE <<>>)
          /\ CASE answer = "yes" /\ ok -> ProcessExit(0, "Installed")
               [] answer = "no" -> ProcessExit(1, "InstallDeclined")
               [] OTHER -> Catch
          /\ UNCHANGED <<provider, apiKey, configFile>>
     \/ /\ calls' = <<Call("isGhInstalled", TRUE, Undefined),
                      Call("isGhAuthenticated", FALSE, Undefined),
                      Call("loginGh", FALSE, Undefined)>>
        /\ Catch
        /\ UNCHANGED <<provider, apiKey, configFile>>
     \/ Configure(<<Call("isGhInstalled", TRUE, Undefined),
                    Call("isGhAuthenticated", TRUE, Undefined)>>, "SetupComplete")
     \/ Configure(<<Call("isGhInstalled", TRUE, Undefined),
                    Call("isGhAuthenticated", FALSE, Undefined),
                    Call("loginGh", TRUE, Undefined)>>, "SetupComplete")
  /\ UNCHANGED <<site, message, needsApiReconfigure, diff, commitMessage>>

\* my-cli config
ConfigCommand ==
  /\ pc = "idle"
  /\ Configure(<<>>, "ConfigurationUpdated")
  /\ UNCHANGED <<site, message, needsApiReconfigure, diff, commitMessage>>

\* my-cli logout [-a]: clearConfig(), then with --all the confirmation and
\* logoutGh(), whose failure is caught; the notice kept is the line printed
\* for the result of clearConfig
LogoutCommand ==
  /\ pc = "idle"
  /\ LET cleared == clearConfig(configFile)
         line == IF cleared.result THEN "ConfigurationCleared" ELSE "NothingToClear"
         first == <<Call("clearConfig", cleared.result, Undefined)>>
     IN /\ configFile' = cleared.file
        /\ \/ calls' = first /\ ProcessExit(0, line)
           \/ \E answer \in {"no", "throw"} :
                /\ calls' = first \o <<Call("confirm", answer # "throw", <<answer>>)>>
                /\ IF answer = "throw" THEN Catch ELSE ProcessExit(0, line)
           \/ \E ok \in BOOLEAN :
                /\ calls' = first \o <<Call("confirm", TRUE, <<"yes">>),
                                       Call("logoutGh", ok, Undefined)>>
                /\ ProcessExit(0, line)
  /\ UNCHANGED <<site, message, locals>>

NextCommands ==
  \/ Next
  \/ ShellPrompt
  \/ PushCommand
  \/ SetupCommand
  \/ ConfigCommand
  \/ LogoutCommand

SpecCommands == InitCommands /\ [][NextCommands]_vars


\* ------------------------------------------------------------------ C12
\* C12: over any sequence of setup, config, push and logout commands, a
\* stored configuration with setupComplete true holds one of the providers
\* and a key that is non-empty and equal to its own trimmed form.
C12_CompleteMeansConfigured ==
  getConfig(configFile).setupComplete = "true" =>
    /\ getAiProvider(configFile) \in AiProvider
    /\ Truthy(getApiKey(configFile))
    /\ Trim(getApiKey(configFile)) = getApiKey(configFile)

\* a command has ended right after setApiKey stored a key
C12_Witness ==
  /\ pc = "exit"
  /\ Len(calls) > 0
  /\ LastCall.op = "setApiKey" /\ LastCall.ok
  /\ configFile.kind = "json"
  /\ getConfig(configFile).setupComplete = "true"
  /\ getApiKey(configFile) = <<"a">>


\* ------------------------------------------------------------------ C13
Stored(p, k) == [aiProvider |-> p, apiKey |-> k, setupComplete |-> "true"]

C13_Cleared ==
  /\ pc = "exit"
  /\ Len(calls) > 0
  /\ LastCall.op = "clearConfig" /\ LastCall.ok
  /\ getConfig(configFile) = EmptyConfig


\* ------------------------------------------------------------------ C14
Unreadable(file) == file.kind \in {"missing", "invalid"}

\* C14: with the config file missing or holding invalid JSON, getConfig
\* returns the empty configuration, isSetupComplete is false, getAiProvider
\* and getApiKey return undefined, the guard that reads the configuration
\* does not end in the error handler, and no step other than a setApiKey
\* changes the file.
C14_ReadNeverFails ==
  [][/\ Unreadable(configFile) =>
          /\ getConfig(configFile) = EmptyConfig
          /\ ~isSetupComplete(configFile)
          /\ getAiProvider(configFile) = UndefinedProvider
          /\ getApiKey(configFile) = Undefined
          /\ pc = "start" => (configFile' = configFile /\ notice' # "Error")
     /\ configFile' # configFile => calls'[Len(calls')].op = "setApiKey"]_vars

\* push without a message has read a corrupt file, found setup incomplete
\* and exited, the file still corrupt
C14_Witness ==
  /\ Exited(1)
  /\ notice = "SetupNotComplete"
  /\ configFile = InvalidFile
  /\ calls = <<>>


\* ------------------------------------------------------------------ C15
\* a step that runs the logout command
LogoutStep == pc = "idle" /\ pc' = "exit" /\ calls'[1].op = "clearConfig"

Dispatch(p) ==
  CASE p = "gemini" -> "generateWithGemini"
    [] p = "openai" -> "generateWithOpenAI"
    [] p = "anthropic" -> "generateWithAnthropic"
    [] p = "github" -> "generateWithGitHub"

\* the url each function posts to; the Gemini key travels in the query string
Url(fn, key) ==
  CASE fn = "generateWithGemini" ->
         <<"https://generativelanguage.googleapis.com/v1beta/models/gemini-2.0-flash:generateContent?key=">> \o key
    [] fn = "generateWithOpenAI" -> <<"https://api.openai.com/v1/chat/completions">>
    [] fn = "generateWithAnthropic" -> <<"https://api.anthropic.com/v1/messages">>
    [] fn = "generateWithGitHub" -> <<"https://models.inference.ai.azure.com/chat/completions">>

\* generateCommitMessage(diff, provider, apiKey) has just been called
InitAi ==
  /\ pc = "ai_call"
  /\ site = "none"
  /\ message = Undefined
  /\ configFile = MissingFile
  /\ needsApiReconfigure = FALSE
  /\ provider \in AiProvider
  /\ apiKey \in {<<"a">>, <<"a", "a">>}
  /\ diff \in {<<"a">>, <<" ", "a">>}
  /\ commitMessage = Undefined
  /\ exitCode = -1
  /\ notice = "none"
  /\ calls = <<>>

\* await axios.post(url, body, {timeout: 60000}): the request goes out and
\* resolves with a 2xx body or rejects with a status or a transport failure
AxiosPost ==
  /\ pc = "ai_call"
  /\ \E resp \in Responses :
       calls' = calls \o <<[op |-> "post", ok |-> resp.kind = "ok",
                            arg |-> Url(Dispatch(provider), apiKey), resp |-> resp]>>
  /\ pc' = "ai_await"
  /\ UNCHANGED <<site, message, configFile, locals, exitCode, notice>>

\* AiSettle that goes back to the request after a failure
AiSettle_RetryOnError ==
  /\ pc = "ai_await"
  /\ LET result == generateCommitMessage(provider, calls[Len(calls)].resp) IN
       IF result.ok
       THEN commitMessage' = result.value /\ pc' = "ai_returned" /\ UNCHANGED notice
       ELSE IF Len(calls) < 2
       THEN pc' = "ai_call" /\ UNCHANGED <<commitMessage, notice>>
       ELSE pc' = "ai_thrown" /\ notice' = result.error /\ UNCHANGED commitMessage
  /\ UNCHANGED <<site, message, configFile, needsApiReconfigure, provider, apiKey,
                 diff, exitCode, calls>>

\* the code after the await: the text is extracted and returned trimmed, or
\* an error is thrown to the caller; `notice` holds the kind of the error
AiSettle ==
  /\ pc = "ai_await"
  /\ LET result == generateCommitMessage(provider, calls[Len(calls)].resp) IN
       IF result.ok
       THEN commitMessage' = result.value /\ pc' = "ai_returned" /\ UNCHANGED notice
       ELSE pc' = "ai_thrown" /\ notice' = result.error /\ UNCHANGED commitMessage
  /\ UNCHANGED <<site, message, configFile, needsApiReconfigure, provider, apiKey,
                 diff, exitCode, calls>>

NextAi ==
  \/ AxiosPost
  \/ AiSettle

SpecAi == InitAi /\ [][NextAi]_vars

\* the invocation has ended; Response is what its request came back with
Settled == pc \in {"ai_returned", "ai_thrown"}
Response == calls[Len(calls)].resp
Status(code) == Settled /\ Response.kind = "http" /\ Response.status = code
Failed(kind) == pc = "ai_thrown" /\ notice = kind /\ commitMessage = Undefined


\* ------------------------------------------------------------------ C16
\* C16: an HTTP 401 ends the invocation with InvalidCredentials for each of
\* the four providers; for gemini 403 does too, and 429 ends it with
\* RateLimited.
C16_Classification ==
  /\ Status(401) => Failed("InvalidCredentials")
  /\ (provider = "gemini" /\ Status(403)) => Failed("InvalidCredentials")
  /\ (provider = "gemini" /\ Status(429)) => Failed("RateLimited")

C16_Witness == provider = "gemini" /\ Status(429) /\ Failed("RateLimited")

\* ------------------------------------------------------------------ C17
\* C17: for openai, anthropic and github every failure of the request other
\* than an HTTP 401 (403, 429, any other status, no response at all) ends
\* the invocation with ProviderError.
C17_GenericElsewhere ==
  (/\ provider \in {"openai", "anthropic", "github"}
   /\ Settled
   /\ Response.kind # "ok"
   /\ ~Status(401)) => Failed("ProviderError")

C17_Witness == provider = "anthropic" /\ Status(403) /\ Failed("ProviderError")

\* ------------------------------------------------------------------ C18
\* the text path each provider's response is documented to carry
DocumentedPath ==
  [gemini |-> "candidates", openai |-> "choices", anthropic |-> "content",
   github |-> "choices"]
TextAtPath == IF Response.shape = DocumentedPath[provider] THEN Response.text ELSE Undefined

\* C18: a 2xx response whose text path is absent or empty ends the
\* invocation with EmptyResponse, for every provider, and no message is
\* returned.
C18_EmptyResponse ==
  (Settled /\ Response.kind = "ok" /\ ~Truthy(TextAtPath)) => Failed("EmptyResponse")

\* github has been answered with a body shaped for gemini
C18_Witness ==
  /\ provider = "github"
  /\ Settled
  /\ Response.kind = "ok" /\ Response.shape = "candidates" /\ Response.text = <<"a">>
  /\ Failed("EmptyResponse")

\* ------------------------------------------------------------------ C19
\* C19: a 2xx response carrying a non-empty text at the documented path of
\* the provider makes the invocation return that text, trimmed.
C19_ReturnsTrimmedText ==
  (Settled /\ Response.kind = "ok" /\ Truthy(TextAtPath)) =>
    /\ pc = "ai_returned"
    /\ commitMessage = Trim(TextAtPath)
    /\ notice = "none"

C19_Witness ==
  /\ provider = "anthropic"
  /\ pc = "ai_returned"
  /\ Response.shape = "content" /\ Response.text = <<" ", "a">>
  /\ commitMessage = <<"a">>

\* ------------------------------------------------------------------ C20
DocumentedEndpoint ==
  [gemini |-> "https://generativelanguage.googleapis.com/v1beta/models/gemini-2.0-flash:generateContent?key=",
   openai |-> "https://api.openai.com/v1/chat/completions",
   anthropic |-> "https://api.anthropic.com/v1/messages",
   github |-> "https://models.inference.ai.azure.com/chat/completions"]

\* C20: an invocation posts at most once; once it has, the log holds that one
\* POST, to the endpoint of the requested provider; and it ends either with
\* a message returned or with an error thrown.
C20_OnePost ==
  /\ Count("post") <= 1
  /\ pc \in {"ai_await", "ai_returned", "ai_thrown"} =>
       /\ Len(calls) = 1
       /\ calls[1].op = "post"
       /\ calls[1].arg[1] = DocumentedEndpoint[provider]
  /\ pc = "ai_returned" => (commitMessage # Undefined /\ notice = "none")
  /\ pc = "ai_thrown" => (commitMessage = Undefined /\ notice # "none")

\* the one request failed with a server error and the invocation gave up
C20_Witness == Status(500) /\ Failed("ProviderError") /\ Count("post") = 1


\* ------------------------------------------------------------------ C21
\* C21: every `git push` of a push run follows the current-branch query and
\* names the trimmed output of that query, or `main` when the output is
\* empty or blank; the branch name is never empty.
C21_BranchResolution ==
  \A i \in Ops("push") :
    /\ i > 1
    /\ calls[i - 1].op = "getCurrentBranch" /\ calls[i - 1].ok
    /\ calls[i].arg = IF Trim(calls[i - 1].arg) = <<>> THEN MainBranch
                      ELSE Trim(calls[i - 1].arg)
    /\ calls[i].arg # <<>>

\* the query printed a blank line and the push went to origin/main
C21_Witness ==
  /\ CompletedPush
  /\ calls[Len(calls) - 1] = Call("getCurrentBranch", TRUE, <<" ">>)
  /\ LastCall = Call("push", TRUE, MainBranch)


\* ------------------------------------------------ index.ts: delete and repos
\* A remote URL is a sequence of pieces, cut so that the substrings the code
\* looks for ("github.com", ":", "/", ".git") are pieces of their own: the
\* repository name `owner.github.io` is <<"owner", ".git", "hub.io">>.
Schemes == {<<"https://">>, <<"git@">>}
Hosts == {"github.com", "gitlab.com"}
RepoPaths ==
  {<<"owner", "/", "repo">>,
   <<"owner", "/", "owner", ".git", "hub.io">>,
   <<>>}
RemoteUrls ==
  {scheme \o <<host>> \o sep \o path \o suffix :
     scheme \in Schemes, host \in Hosts, sep \in {<<":">>, <<"/">>},
     path \in RepoPaths, suffix \in {<<>>, <<".git">>}}

NoMatch == <<"null">>

\* remoteUrl.match(/github\.com[:\/](.+?)(?:\.git)?$/): the leftmost
\* "github.com" followed by ":" or "/" and at least one more character; the
\* lazy group stops before a final ".git" when something is left for it
RepoMatch(url) ==
  LET starts == {i \in 1..Len(url) :
                   /\ url[i] = "github.com"
                   /\ i + 2 <= Len(url)
                   /\ url[i + 1] \in {":", "/"}}
  IN IF starts = {} THEN NoMatch
     ELSE LET i == CHOOSE j \in starts : \A k \in starts : j <= k
              rest == SubSeq(url, i + 2, Len(url))
          IN IF Len(rest) > 1 /\ rest[Len(rest)] = ".git"
             THEN SubSeq(rest, 1, Len(rest) - 1)
             ELSE rest

\* String.prototype.replace('.git', ''): the first occurrence is removed
RemoveFirstDotGit(name) ==
  LET hits == {i \in 1..Len(name) : name[i] = ".git"}
  IN IF hits = {} THEN name
     ELSE LET i == CHOOSE j \in hits : \A k \in hits : j <= k
          IN SubSeq(name, 1, i - 1) \o SubSeq(name, i + 1, Len(name))

\* const repoName = repoMatch[1].replace('.git', '')
RepoNameOf(url) == RemoveFirstDotGit(RepoMatch(url))


\* what a failed `gh repo delete` reports, as the pieces of error.message
DeleteErrors ==
  {<<"HTTP 403", "delete_repo", "scope">>, <<"HTTP 404", "Not Found">>}
\* deleteError.message.includes('delete_repo')
IncludesDeleteRepo(text) == \E i \in 1..Len(text) : text[i] = "delete_repo"

\* the command lines `delete` and `repos` can be started with
CommandLines ==
  {<<"delete">>, <<"delete", "--yes">>, <<"repos">>,
   <<"repos", "--delete", "repo">>, <<"repos", "--delete", "owner", "/", "repo">>}

\* a log entry of these two commands: `err` is the message of the error thrown
DCall(op, ok, arg, err) == [op |-> op, ok |-> ok, arg |-> arg, err |-> err]
DLog(op, ok, arg) == calls' = Append(calls, DCall(op, ok, arg, <<>>))

Argv == calls[1].arg
IsDelete == Argv[1] = "delete"
OptionsYes == Argv = <<"delete", "--yes">>
\* options.delete of `repos`
OptionsDelete == IF Len(Argv) > 2 THEN SubSeq(Argv, 3, Len(Argv)) ELSE Undefined
Arg(op) == calls[CHOOSE i \in Ops(op) : TRUE].arg
\* repoName at the confirmation and at the deletion
repoName ==
  IF IsDelete THEN RepoNameOf(Arg("getUrl"))
  ELSE IF Ops("username") # {} THEN Arg("username") \o <<"/">> \o OptionsDelete
  ELSE OptionsDelete

pushState == <<site, message, configFile, needsApiReconfigure, provider, apiKey,
               diff, commitMessage>>

InitDelete ==
  /\ pc = "d_isGhInstalled"
  /\ site = "none"
  /\ message = Undefined
  /\ configFile = MissingFile
  /\ needsApiReconfigure = FALSE
  /\ provider = UndefinedProvider
  /\ apiKey = Undefined
  /\ diff = Undefined
  /\ commitMessage = Undefined
  /\ exitCode = -1
  /\ notice = "none"
  /\ \E argv \in CommandLines : calls = <<DCall("argv", TRUE, argv, <<>>)>>

\* if (!(await isGhInstalled())) process.exit(1)
DIsGhInstalled ==
  /\ pc = "d_isGhInstalled"
  /\ \E installed \in BOOLEAN :
       /\ DLog("isGhInstalled", installed, Undefined)
       /\ IF installed THEN Goto("d_isGhAuthenticated") ELSE ProcessExit(1, "GhMissing")
  /\ UNCHANGED pushState

\* where both commands go once gh is installed and logged in
AfterAuth ==
  CASE IsDelete -> "d_hasRemote"
    [] OptionsDelete = Undefined -> "d_list"
    [] \E i \in 1..Len(OptionsDelete) : OptionsDelete[i] = "/" -> "d_confirm"
    [] OTHER -> "d_username"

\* if (!(await isGhAuthenticated())) await loginGh()
DIsGhAuthenticated ==
  /\ pc = "d_isGhAuthenticated"
  /\ \E authenticated \in BOOLEAN :
       /\ DLog("isGhAuthenticated", authenticated, Undefined)
       /\ Goto(IF authenticated THEN AfterAuth ELSE "d_loginGh")
  /\ UNCHANGED pushState

DLoginGh ==
  /\ pc = "d_loginGh"
  /\ \E ok \in BOOLEAN :
       /\ DLog("loginGh", ok, Undefined)
       /\ IF ok THEN Goto(AfterAuth) ELSE Catch
  /\ UNCHANGED pushState

\* delete: if (!(await hasRemote())) process.exit(1)
DHasRemote ==
  /\ pc = "d_hasRemote"
  /\ \E remotes \in SUBSET RemoteNames :
       /\ DLog("hasRemote", hasRemote(remotes), Undefined)
       /\ IF hasRemote(remotes) THEN Goto("d_getUrl") ELSE ProcessExit(1, "NoRemote")
  /\ UNCHANGED pushState

\* where delete goes with a repository name in hand
AfterMatch == IF OptionsYes THEN "d_delete" ELSE "d_confirm"

\* delete: git remote get-url origin, the match and the replace
DGetUrl ==
  /\ pc = "d_getUrl"
  /\ \/ \E url \in RemoteUrls :
          /\ DLog("getUrl", TRUE, url)
          /\ IF RepoMatch(url) = NoMatch
             THEN ProcessExit(1, "NoRepositoryName")
             ELSE Goto(AfterMatch)
     \/ /\ DLog("getUrl", FALSE, Undefined)
        /\ Catch
  /\ UNCHANGED pushState

\* repos --delete <name> without a slash: gh api user --jq .login
DUsername ==
  /\ pc = "d_username"
  /\ \/ DLog("username", TRUE, <<"owner">>) /\ Goto("d_confirm")
     \/ DLog("username", FALSE, Undefined) /\ Catch
  /\ UNCHANGED pushState

\* const confirmed = await confirm('Are you sure you want to DELETE ...')
DConfirm ==
  /\ pc = "d_confirm"
  /\ \E answer \in {"yes", "no", "throw"} :
       /\ calls' = Append(calls, DCall("confirm", answer # "throw", repoName, <<answer>>))
       /\ CASE answer = "yes" -> Goto("d_delete")
            [] answer = "no" -> ProcessExit(0, "Cancelled")
            [] OTHER -> Catch
  /\ UNCHANGED pushState

\* DDelete whose catch swallows the failures it does not retry
DDelete_FailureSwallowed ==
  /\ pc = "d_delete"
  /\ \/ /\ DLog("repoDelete", TRUE, repoName)
        /\ IF IsDelete THEN Goto("d_removeRemote") ELSE ProcessExit(0, "Deleted")
     \/ \E text \in DeleteErrors :
          /\ calls' = Append(calls, DCall("repoDelete", FALSE, repoName, text))
          /\ IF IncludesDeleteRepo(text) THEN Goto("d_refresh")
             ELSE IF IsDelete THEN Goto("d_removeRemote") ELSE ProcessExit(0, "Deleted")
  /\ UNCHANGED pushState

\* await execa('gh', ['repo', 'delete', repoName, '--yes']) and its catch
DDelete ==
  /\ pc = "d_delete"
  /\ \/ /\ DLog("repoDelete", TRUE, repoName)
        /\ IF IsDelete THEN Goto("d_removeRemote") ELSE ProcessExit(0, "Deleted")
     \/ \E text \in DeleteErrors :
          /\ calls' = Append(calls, DCall("repoDelete", FALSE, repoName, text))
          /\ IF IncludesDeleteRepo(text) THEN Goto("d_refresh") ELSE Catch
  /\ UNCHANGED pushState

\* gh auth refresh -h github.com -s delete_repo
DRefresh ==
  /\ pc = "d_refresh"
  /\ \E ok \in BOOLEAN :
       /\ DLog("authRefresh", ok, <<"delete_repo">>)
       /\ IF ok THEN Goto("d_retry") ELSE Catch
  /\ UNCHANGED pushState

\* DRetry whose failure for want of the scope goes back to the refresh
DRetry_Again ==
  /\ pc = "d_retry"
  /\ \/ /\ DLog("repoDelete", TRUE, repoName)
        /\ IF IsDelete THEN Goto("d_removeRemote") ELSE ProcessExit(0, "Deleted")
     \/ \E text \in DeleteErrors :
          /\ calls' = Append(calls, DCall("repoDelete", FALSE, repoName, text))
          /\ IF IncludesDeleteRepo(text) /\ Count("repoDelete") < 3
             THEN Goto("d_refresh") ELSE Catch
  /\ UNCHANGED pushState

\* the retry inside the catch: its failure reaches the outer catch
DRetry ==
  /\ pc = "d_retry"
  /\ \/ /\ DLog("repoDelete", TRUE, repoName)
        /\ IF IsDelete THEN Goto("d_removeRemote") ELSE ProcessExit(0, "Deleted")
     \/ \E text \in DeleteErrors :
          /\ calls' = Append(calls, DCall("repoDelete", FALSE, repoName, text))
          /\ Catch
  /\ UNCHANGED pushState

\* delete: await execa('git', ['remote', 'remove', 'origin'])
DRemoveRemote ==
  /\ pc = "d_removeRemote"
  /\ \E ok \in BOOLEAN :
       /\ DLog("remoteRemove", ok, <<"origin">>)
       /\ IF ok THEN ProcessExit(0, "Deleted") ELSE Catch
  /\ UNCHANGED pushState

\* repos without --delete: gh repo list and JSON.parse
DList ==
  /\ pc = "d_list"
  /\ \E ok \in BOOLEAN :
       /\ DLog("repoList", ok, Undefined)
       /\ IF ok THEN ProcessExit(0, "Listed") ELSE Catch
  /\ UNCHANGED pushState

NextDelete ==
  \/ DIsGhInstalled
  \/ DIsGhAuthenticated
  \/ DLoginGh
  \/ DHasRemote
  \/ DGetUrl
  \/ DUsername
  \/ DConfirm
  \/ DDelete
  \/ DRefresh
  \/ DRetry
  \/ DRemoveRemote
  \/ DList

SpecDelete == InitDelete /\ [][NextDelete]_vars


\* ------------------------------------------------------------------ C22
\* the URL is https://github.com/<path> or git@github.com:<path>, with or
\* without the .git suffix
GitHubUrlOf(url, path) ==
  \E scheme \in Schemes, sep \in {<<":">>, <<"/">>}, suffix \in {<<>>, <<".git">>} :
    url = scheme \o <<"github.com">> \o sep \o path \o suffix

\* C22: in a delete run, a GitHub remote URL in either form yields its
\* <owner>/<repo> as the repository name, which is the name confirmed and
\* deleted; and a URL that does not match ends the run with exit 1 and no
\* deletion attempt.
C22_ParsesOwnerRepo ==
  \A i \in Ops("getUrl") :
    calls[i].ok =>
      /\ \A path \in RepoPaths \ {<<>>} :
           GitHubUrlOf(calls[i].arg, path) =>
             /\ RepoNameOf(calls[i].arg) = path
             /\ \A j \in Ops("repoDelete") \cup Ops("confirm") : calls[j].arg = path
      /\ RepoMatch(calls[i].arg) = NoMatch =>
           (Exited(1) /\ i = Len(calls) /\ Count("repoDelete") = 0)


\* ------------------------------------------------------------------ C23
NeedsScope(i) == ~calls[i].ok /\ IncludesDeleteRepo(calls[i].err)
FirstDelete == CHOOSE i \in Ops("repoDelete") : \A j \in Ops("repoDelete") : i <= j

\* C23: in `delete` and `repos --delete`, gh repo delete is attempted at most
\* twice and gh auth refresh asked at most once; the refresh follows a first
\* attempt that failed with "delete_repo" in its message and asks for that
\* scope, and always follows such a failure; the second attempt follows a
\* refresh that went through, is for the same repository, and always follows
\* such a refresh; a first failure without "delete_repo", a failed refresh
\* and a failed second attempt are each the last operation of a run that
\* exits 1.
C23_OneRetryAfterRefresh ==
  /\ Count("repoDelete") <= 2
  /\ Count("authRefresh") <= 1
  /\ \A r \in Ops("authRefresh") :
       /\ r - 1 = FirstDelete
       /\ NeedsScope(r - 1)
       /\ calls[r].arg = <<"delete_repo">>
       /\ IF calls[r].ok
          THEN pc = "d_retry" \/ (r < Len(calls) /\ calls[r + 1].op = "repoDelete")
          ELSE r = Len(calls) /\ Exited(1)
  /\ \A d \in Ops("repoDelete") :
       IF d = FirstDelete
       THEN CASE calls[d].ok -> TRUE
              [] NeedsScope(d) ->
                   pc = "d_refresh" \/ (d < Len(calls) /\ calls[d + 1].op = "authRefresh")
              [] OTHER -> d = Len(calls) /\ Exited(1)
       ELSE /\ calls[d - 1].op = "authRefresh" /\ calls[d - 1].ok
            /\ calls[d].arg = calls[FirstDelete].arg
            /\ ~calls[d].ok => (d = Len(calls) /\ Exited(1))

\* the re-attempt failed for want of the scope again and the run gave up
C23_Witness ==
  /\ Exited(1)
  /\ Count("repoDelete") = 2
  /\ Count("authRefresh") = 1
  /\ NeedsScope(Len(calls))
  /\ calls[Len(calls)].op = "repoDelete"


\* ------------------------------------------------------------------ C24
\* C24: in a push run the remote check passes exactly when a remote named
\* `origin` is listed, and when it does not pass the next operation is the
\* creation of the GitHub repository.
C24_ExactOrigin ==
  \A i \in Ops("hasRemote") :
    /\ calls[i].ok = (calls[i].arg = <<"origin">>)
    /\ (calls[i].arg # <<"origin">> /\ i < Len(calls)) =>
         calls[i + 1].op = "createGitHubRepo"


\* ------------------------------------------------------------------ C25
\* C25: in every push run the message given to commit is neither empty nor
\* blank; without an override it is a trimmed text, with one it is the text
\* of -m.
C25_NonBlankCommitMessage ==
  \A i \in Ops("commit") :
    /\ calls[i].arg # Undefined
    /\ Trim(calls[i].arg) # <<>>
    /\ IF Truthy(message) THEN calls[i].arg = message
       ELSE calls[i].arg = Trim(calls[i].arg)


\* ------------------------------------------------------------------ C26
\* a step of push that calls generateCommitMessage(diff, provider, apiKey)
AiCallStep ==
  /\ Len(calls') = Len(calls) + 1
  /\ calls'[Len(calls')].op = "generateCommitMessage"

\* C26: at every generateCommitMessage call of push, the provider and key
\* passed are a provider of the list and a non-empty key, both equal to what
\* the configuration file holds at that moment; the second call comes right
\* after the setApiKey that stored them; and the call, failed or not,
\* leaves the file as it is.
C26_CallUsesStoredConfig ==
  [][AiCallStep =>
       /\ provider \in AiProvider
       /\ Truthy(apiKey)
       /\ provider = getAiProvider(configFile)
       /\ apiKey = getApiKey(configFile)
       /\ Count("generateCommitMessage") = 1 =>
            LastCall = Call("setApiKey", TRUE, apiKey)
       /\ configFile' = configFile]_vars

\* the retry with the newly stored provider and key failed, and they are
\* still in the file
C26_Witness ==
  /\ Exited(1)
  /\ Count("generateCommitMessage") = 2
  /\ LastCall.op = "generateCommitMessage" /\ ~LastCall.ok
  /\ calls[Len(calls) - 1] = Call("setApiKey", TRUE, apiKey)
  /\ getConfig(configFile) = Stored(provider, apiKey)


\* ------------------------------------------------------------------ C27
LastDelete == CHOOSE i \in Ops("repoDelete") : \A j \in Ops("repoDelete") : j <= i

\* C27: in a delete run, `git remote remove origin` comes right after a
\* gh repo delete that succeeded; with --yes there is no confirmation, and
\* without it the deletion follows an accepted confirmation; a declined
\* confirmation ends the run with exit 0, no deletion attempt and the remote
\* in place; and a run whose deletion failed ends with exit 1 and the remote
\* in place.
C27_RemoteRemovedAfterDeletion ==
  IsDelete =>
    /\ \A r \in Ops("remoteRemove") :
         calls[r - 1].op = "repoDelete" /\ calls[r - 1].ok
    /\ IF OptionsYes THEN Count("confirm") = 0
       ELSE \A d \in Ops("repoDelete") :
              \E c \in Ops("confirm") : c < d /\ calls[c].err = <<"yes">>
    /\ \A c \in Ops("confirm") :
         calls[c].err = <<"no">> =>
           /\ Exited(0) /\ c = Len(calls)
           /\ Count("repoDelete") = 0
           /\ Count("remoteRemove") = 0
    /\ (pc = "exit" /\ Ops("repoDelete") # {} /\ ~calls[LastDelete].ok) =>
         (Exited(1) /\ Count("remoteRemove") = 0)

\* delete --yes went to the deletion without asking, the deletion failed
\* and origin was left alone
C27_Witness ==
  /\ OptionsYes
  /\ Exited(1)
  /\ Count("confirm") = 0
  /\ calls[Len(calls)].op = "repoDelete" /\ ~calls[Len(calls)].ok
  /\ Count("remoteRemove") = 0

====
